---- MODULE Spec2Model ----
(***************************************************************************)
(* A model of anaconda.py, the mirror synchronisation script:              *)
(*   main()            the driver, one tree after the other                *)
(*   sync_repo()       trees that publish repodata.json                    *)
(*   sync_installer()  trees that publish an HTML listing                  *)
(*   curl_download()   download to a path, then check the md5              *)
(* The destination directories, the remote trees and every process         *)
(* running main() are state; each action is one step of the code.          *)
(***************************************************************************)
EXTENDS Integers, Sequences, FiniteSets, TLC

\* ------------------------------------------------------------------ bounds
\* Number of distinct file names a remote tree may describe.
MaxFiles == 2

Files == 1..MaxFiles

\* ------------------------------------------------------------ file contents
\* Complete file bodies a server may send or a directory may hold.  "good" is
\* the body the remote tree describes; "corrupt" has the same length and other
\* bytes; "other" has another length.  "partial" is a body cut short by an
\* interrupted transfer.
Bodies == {"good", "corrupt", "other"}

PARTIAL == "partial"

\* os.stat().st_size of a file holding body b.
Size(b) ==
    CASE b = "good" -> 2
      [] b = "corrupt" -> 2
      [] b = "other" -> 3
      [] OTHER -> 1

\* hashlib.md5 of a body: distinct bodies have distinct digests (md5 is taken
\* to be collision free on the bodies of the model).
Md5Hex(b) ==
    CASE b = "good" -> "md5:9f2c"
      [] b = "corrupt" -> "md5:41aa"
      [] b = "other" -> "md5:07d3"
      [] OTHER -> "md5:e0b1"

\* md5_check(file, md5): the digest of the file's bytes equals md5.
md5_check(body, md5) == Md5Hex(body) = md5

\* The mutation of Md5Mismatch that never reports a mismatch.
Md5MismatchNever(body, md5) == FALSE

\* curl_download, line 109: a checksum was given and the file does not match.
Md5Mismatch(body, md5) == md5 # "" /\ ~md5_check(body, md5)

\* Last-Modified of every remote file, and the other time stamp of the model.
RemoteDate == 2

OldDate == 1

NoFile == [body |-> "none", mtime |-> 0]

IsFile(file) == file.body # "none"

\* ------------------------------------------------------------------- paths
\* The mutation of WipPath that downloads straight onto the destination.
WipPathInPlace(f) == <<"dst", f>>

\* dst_file_wip = local_dir / ('.downloading.' + filename)
WipPath(f) == <<"wip", f>>

\* dst_file = local_dir / filename
DstPath(f) == <<"dst", f>>

Paths == {"dst", "wip"} \X Files

NoPath == <<"none", 0>>

EXCLUDED_PACKAGES == {"pytorch-nightly", "pytorch-nightly-cpu", "ignite-nightly"}

\* The mutation of RetryCount that gives up one attempt early.
RetryCountShort == 1 + 1

\* for retry in range(3)
RetryCount == 3

\* -------------------------------------------------------------------- state
VARIABLES
    kinds,      \* the trees main() walks, in order: "installer" or "repo"
    delete,     \* args.delete
    remote,     \* remote[t]: what the server of tree t publishes
    dirs,       \* dirs[t][path]: the file at a path of tree t's local_dir
    docs,       \* docs[t]: the index documents of tree t's local_dir
    dirs0,      \* dirs when the current run of main() started
    run,        \* how many times the script has been started
    proc        \* proc[p]: the locals and position of process p

vars == <<kinds, delete, remote, dirs, docs, dirs0, run, proc>>

Trees == DOMAIN kinds

Procs == DOMAIN proc

\* The entry the loop of process p is at, its file and the paths of that file.
Items(p) == remote[proc[p].tree].items

Item(p) == Items(p)[proc[p].i]

CurFile(p) == Item(p).filename

Dir(p) == dirs[proc[p].tree]

InSync(p) == proc[p].tree \in Trees

\* ----------------------------------------------------- the file system
\* Path.unlink(): a process that holds the file open keeps writing to a file
\* no path names any more.
ProcAfterUnlink(pr, t, path) ==
    [q \in DOMAIN pr |->
        IF pr[q].tree = t /\ pr[q].fd = path
        THEN [pr[q] EXCEPT !.fd = <<"orphan", 0>>]
        ELSE pr[q]]

\* Path.rename(): the open file moves with its name.
ProcAfterRename(pr, t, from, to) ==
    [q \in DOMAIN pr |->
        IF pr[q].tree = t /\ pr[q].fd = to
        THEN [pr[q] EXCEPT !.fd = <<"orphan", 0>>]
        ELSE IF pr[q].tree = t /\ pr[q].fd = from
             THEN [pr[q] EXCEPT !.fd = to]
             ELSE pr[q]]

RECURSIVE SumSizes(_, _)
\* sum(f.stat().st_size for f in local_dir.glob('*') if f.is_file())
SumSizes(dir, paths) ==
    IF paths = {} THEN 0
    ELSE LET x == CHOOSE y \in paths : TRUE
         IN  (IF IsFile(dir[x]) THEN Size(dir[x].body) ELSE 0)
             + SumSizes(dir, paths \ {x})

\* ------------------------------------------------------------ initial state
RECURSIVE SeqFrom(_)
\* The members of a set of file names, in ascending order.
SeqFrom(S) ==
    IF S = {} THEN <<>>
    ELSE LET m == CHOOSE x \in S : \A y \in S : x <= y
         IN  <<m>> \o SeqFrom(S \ {m})

\* One entry of repodata.json: filename -> {name, size, md5}.
PackageMeta(f, name) ==
    [filename |-> f, name |-> name, size |-> Size("good"), md5 |-> Md5Hex("good")]

\* One row of the HTML listing: (fname, md5).
ListingRow(f) ==
    [filename |-> f, name |-> "", size |-> 0, md5 |-> Md5Hex("good")]

\* What a server may publish for a tree of nf file names.  A repo tree lists
\* any subset of the names, each under a mirrored or an excluded package name;
\* current_repodata.json is served ("ok"), not there ("missing") or breaks off
\* after part of it was written ("broken").
RemoteTrees(kind, nf, currents) ==
    IF kind = "installer"
    THEN {[items |-> [f \in 1..nf |-> ListingRow(f)], current |-> "missing"]}
    ELSE {[items |-> LET S == {f \in 1..nf : g[f] # "unlisted"}
                         s == SeqFrom(S)
                     IN  [k \in 1..Len(s) |-> PackageMeta(s[k], g[s[k]])],
           current |-> c] :
            g \in [1..nf -> {"unlisted", "numpy", "pytorch-nightly"}],
            c \in currents}

\* The complete files a destination may hold before a run.
LocalFiles(kind, bodies) ==
    {NoFile} \cup
    [body : bodies,
     mtime : IF kind = "installer" THEN {OldDate, RemoteDate} ELSE {OldDate}]

\* The local_dir of a tree before the run: complete files, no temporary ones.
LocalDirs(kind, nf, bodies) ==
    {[path \in Paths |->
        IF path[1] = "dst" /\ path[2] <= nf THEN d[path[2]] ELSE NoFile] :
     d \in [1..nf -> LocalFiles(kind, bodies)]}

OldDocs == [repodata |-> "old", bz2 |-> "old", current |-> "old"]

\* The locals of main() and of the sync function it is in.
InitProc ==
    [pc |-> "main", tree |-> 1, size_statistics |-> 0, outcomes |-> <<>>,
     exc |-> "none",
     \* sync_repo / sync_installer
     i |-> 1, full_scan |-> FALSE, len_avail |-> FALSE,
     total_size |-> 0, remote_filelist |-> {},
     fetched |-> "none", tmp_current |-> "absent", retry |-> 0, err |-> "unset",
     \* the transfer in flight
     fd |-> NoPath, served |-> "none", before |-> NoFile,
     \* what the run did so far
     attempts |-> 0, attempted |-> {}, given_up |-> [f \in Files |-> 0],
     failed |-> {}, skipped |-> {}, probed |-> {}, sampled |-> {},
     deleted |-> {}, delete_count |-> 0,
     \* what the run before this one did
     prev_failed |-> {}, prev_outcomes |-> <<>>]

\* main() starts in np processes on trees of one of the kind sequences kindss,
\* nf file names each, the destinations holding files of the given bodies.
InitWith(kindss, nf, np, currents, bodies) ==
    /\ kinds \in kindss
    /\ delete \in BOOLEAN
    /\ remote \in [DOMAIN kinds -> UNION {RemoteTrees(k, nf, currents) : k \in {"installer", "repo"}}]
    /\ \A t \in DOMAIN kinds : remote[t] \in RemoteTrees(kinds[t], nf, currents)
    /\ dirs \in [DOMAIN kinds -> UNION {LocalDirs(k, nf, bodies) : k \in {"installer", "repo"}}]
    /\ \A t \in DOMAIN kinds : dirs[t] \in LocalDirs(kinds[t], nf, bodies)
    /\ docs = [t \in DOMAIN kinds |-> OldDocs]
    /\ dirs0 = dirs
    /\ run = 1
    /\ proc = [p \in 1..np |-> InitProc]

\* One tree, installer listing or repo index, synced by one process.
Init == InitWith({<<"installer">>, <<"repo">>}, MaxFiles, 1, {"ok"}, Bodies)

\* ------------------------------------------------------------------ main()
\* An exception leaves the sync function: the driver's try block sees it.
Raise(pr, e) == [pr EXCEPT !.pc = "raised", !.exc = e]

\* Lines 277-281, 287-296, 303-311: the next tree's sync function is called
\* (local_dir.mkdir, tempfile.mkdtemp, full_scan = random.random() < 0.1).
MainCall(p) ==
    /\ proc[p].pc = "main"
    /\ proc[p].tree <= Len(kinds)
    /\ \E fs \in IF kinds[proc[p].tree] = "installer" THEN BOOLEAN ELSE {FALSE} :
        proc' = [proc EXCEPT ![p] =
            [@ EXCEPT !.pc = IF kinds[proc[p].tree] = "installer"
                             THEN "list" ELSE "fetch_index",
                      !.full_scan = fs, !.len_avail = FALSE,
                      !.i = 1, !.total_size = 0,
                      !.remote_filelist = {}, !.fetched = "none",
                      !.tmp_current = "absent", !.retry = 0, !.err = "unset",
                      !.attempts = 0, !.attempted = {},
                      !.given_up = [f \in Files |-> 0], !.failed = {},
                      !.skipped = {}, !.probed = {}, !.sampled = {},
                      !.deleted = {}, !.delete_count = 0]]
    /\ UNCHANGED <<kinds, delete, remote, dirs, docs, dirs0, run>>

\* Lines 282-283, 295, 301, 310, 315: the sync function returned; its size is
\* added to size_statistics and the loop goes to the next tree.
MainReturn(p) ==
    /\ proc[p].pc = "returned"
    /\ proc' = [proc EXCEPT ![p] =
            [@ EXCEPT !.pc = "main",
                      !.tree = @ + 1,
                      !.len_avail = FALSE,
                      !.outcomes = Append(@, "returned"),
                      !.tmp_current = "absent",
                      !.size_statistics = @ +
                          (IF kinds[proc[p].tree] = "installer"
                           THEN SumSizes(Dir(p), Paths)
                           ELSE proc[p].total_size)]]
    /\ UNCHANGED <<kinds, delete, remote, dirs, docs, dirs0, run>>

\* The mutation of MainExcept in which the handler lets the exception go on.
MainExceptAborts(p) ==
    /\ proc[p].pc = "raised"
    /\ proc' = [proc EXCEPT ![p] =
            [@ EXCEPT !.pc = "aborted", !.outcomes = Append(@, proc[p].exc)]]
    /\ UNCHANGED <<kinds, delete, remote, dirs, docs, dirs0, run>>

\* Lines 284-285, 297-301, 312-315: except Exception: logging.exception(...),
\* finally: shutil.rmtree(tmpdir); the loop goes to the next tree.
MainExcept(p) ==
    /\ proc[p].pc = "raised"
    /\ proc' = [proc EXCEPT ![p] =
            [@ EXCEPT !.pc = "main",
                      !.tree = @ + 1,
                      !.outcomes = Append(@, proc[p].exc),
                      !.exc = "none",
                      !.fd = NoPath,
                      !.tmp_current = "absent"]]
    /\ UNCHANGED <<kinds, delete, remote, dirs, docs, dirs0, run>>

\* Line 317: print("Total size is", ...).
MainReport(p) ==
    /\ proc[p].pc = "main"
    /\ proc[p].tree > Len(kinds)
    /\ proc' = [proc EXCEPT ![p] = [@ EXCEPT !.pc = "done"]]
    /\ UNCHANGED <<kinds, delete, remote, dirs, docs, dirs0, run>>

\* ------------------------------------------------------------- sync_repo()
\* The mutation of IndexFetchFailed that swallows the failure, as the fetch of
\* current_repodata.json does.
IndexFetchFailedSwallowed(pr, got) ==
    [pr EXCEPT !.pc = "repo_loop", !.fetched = got]

\* Lines 127-128: curl_download of repodata.json or repodata.json.bz2 fails;
\* the CalledProcessError leaves sync_repo.
IndexFetchFailed(pr, got) ==
    Raise([pr EXCEPT !.fetched = got], "CalledProcessError")

\* Lines 127-135: repodata.json and repodata.json.bz2 are fetched into tmpdir
\* (a failure raises CalledProcessError), then current_repodata.json with every
\* exception swallowed; what curl wrote before it failed stays in tmpdir.
FetchIndex(p) ==
    /\ proc[p].pc = "fetch_index"
    /\ \E got \in {"ok", "repodata.json fails", "repodata.json.bz2 fails"} :
        proc' = [proc EXCEPT ![p] =
            IF got = "ok"
            THEN [@ EXCEPT !.pc = "repo_loop",
                           !.fetched = got,
                           !.tmp_current =
                               CASE remote[proc[p].tree].current = "ok" -> "full"
                                 [] remote[proc[p].tree].current = "broken" -> "partial"
                                 [] OTHER -> "absent"]
            ELSE IndexFetchFailed(@, got)]
    /\ UNCHANGED <<kinds, delete, remote, dirs, docs, dirs0, run>>

\* The loop the process is in goes to its next entry.
NextEntry(pr) ==
    [pr EXCEPT !.pc = IF kinds[pr.tree] = "installer" THEN "inst_loop" ELSE "repo_loop",
               !.i = @ + 1, !.retry = 0, !.err = "unset", !.attempts = 0,
               !.served = "none", !.before = NoFile]

\* The mutation of SizeMatches that takes every file as up to date.
SizeMatchesAlways(file_size, local_filesize) == TRUE

\* The mutation of SizeMatches that takes no file as up to date.
SizeMatchesNever(file_size, local_filesize) == FALSE

\* Line 158: file_size == local_filesize
SizeMatches(file_size, local_filesize) == file_size = local_filesize

\* The mutation of IsExcluded that mirrors every package.
IsExcludedNever(name) == FALSE

\* Line 143: meta['name'] in EXCLUDED_PACKAGES
IsExcluded(name) == name \in EXCLUDED_PACKAGES

\* The mutation of TotalAfter that keeps the size of the last entry only.
TotalAfterLast(total_size, file_size) == file_size

\* Line 147: total_size += file_size
TotalAfter(total_size, file_size) == total_size + file_size

\* The mutation of ListedAfter that puts no path on the list.
ListedAfterNone(remote_filelist, dst_file) == remote_filelist

\* Line 152: remote_filelist.append(dst_file)
ListedAfter(remote_filelist, dst_file) == remote_filelist \cup {dst_file}

\* Lines 142-162: one entry of packages.items() up to the download loop.
RepoEntry(p) ==
    /\ proc[p].pc = "repo_loop"
    /\ proc[p].i <= Len(Items(p))
    /\ LET t == proc[p].tree
           meta == Item(p)
           f == meta.filename
           dst == Dir(p)[DstPath(f)]
           listed == [proc[p] EXCEPT !.total_size = TotalAfter(@, meta.size),
                                     !.remote_filelist = ListedAfter(@, DstPath(f))]
       IN  IF IsExcluded(meta.name)
           THEN /\ proc' = [proc EXCEPT ![p] = NextEntry(@)]
                /\ UNCHANGED dirs
           ELSE IF IsFile(dst) /\ SizeMatches(meta.size, Size(dst.body))
           THEN /\ proc' = [proc EXCEPT ![p] =
                        NextEntry([listed EXCEPT !.skipped = @ \cup {f}])]
                /\ UNCHANGED dirs
           ELSE IF IsFile(dst)
           THEN /\ dirs' = [dirs EXCEPT ![t][DstPath(f)] = NoFile]
                /\ proc' = ProcAfterUnlink(
                        [proc EXCEPT ![p] = [listed EXCEPT !.pc = "download"]],
                        t, DstPath(f))
           ELSE /\ proc' = [proc EXCEPT ![p] = [listed EXCEPT !.pc = "download"]]
                /\ UNCHANGED dirs
    /\ UNCHANGED <<kinds, delete, remote, docs, dirs0, run>>

\* The mutation of EntriesDone that lets the loop be left at any entry.
EntriesDoneAlways(p) == TRUE

\* Line 142: packages.items() is exhausted.
EntriesDone(p) == proc[p].i > Len(Items(p))

\* Lines 176-180: the fetched index documents are moved into local_dir, and
\* current_repodata.json too if a file of that name is in tmpdir.
PublishIndex(p) ==
    /\ proc[p].pc = "repo_loop"
    /\ EntriesDone(p)
    /\ docs' = [docs EXCEPT ![proc[p].tree] =
            [repodata |-> "new", bz2 |-> "new",
             current |-> CASE proc[p].tmp_current = "full" -> "new"
                           [] proc[p].tmp_current = "partial" -> "partial"
                           [] OTHER -> @.current]]
    /\ proc' = [proc EXCEPT ![p] = [@ EXCEPT !.pc = "prune", !.tmp_current = "absent"]]
    /\ UNCHANGED <<kinds, delete, remote, dirs, dirs0, run>>

\* The mutation of GlobPackages that leaves the temporary files out.
GlobPackagesNoHidden(dir) == {path \in Paths : path[1] = "dst" /\ IsFile(dir[path])}

\* Lines 185-188: local_dir.glob('*.tar.bz2') and glob('*.conda'); pathlib
\* matches the '.downloading.' names too.
GlobPackages(dir) == {path \in Paths : IsFile(dir[path])}

\* The mutation of Orphans that deletes what the index lists.
OrphansAll(local_filelist, remote_filelist) == local_filelist

\* Line 189: set(local_filelist) - set(remote_filelist)
Orphans(local_filelist, remote_filelist) == local_filelist \ remote_filelist

\* Lines 182-197: with --delete, every package file of local_dir the loop did
\* not put on remote_filelist is unlinked and counted; total_size is returned.
PruneAndReturn(p) ==
    /\ proc[p].pc = "prune"
    /\ LET t == proc[p].tree
           gone == IF delete
                   THEN Orphans(GlobPackages(Dir(p)), proc[p].remote_filelist)
                   ELSE {}
       IN  /\ dirs' = [dirs EXCEPT ![t] =
                    [path \in Paths |-> IF path \in gone THEN NoFile ELSE @[path]]]
           /\ proc' = [q \in Procs |->
                    IF q = p
                    THEN [proc[p] EXCEPT !.pc = "returned", !.deleted = gone,
                                         !.delete_count = Cardinality(gone)]
                    ELSE IF proc[q].tree = t /\ proc[q].fd \in gone
                         THEN [proc[q] EXCEPT !.fd = <<"orphan", 0>>]
                         ELSE proc[q]]
    /\ UNCHANGED <<kinds, delete, remote, docs, dirs0, run>>

\* ------------------------------------------- the download loop, curl_download()
\* Lines 164-167 / 248-252 and curl's start: an attempt begins; curl opens
\* its output file, truncating what the path held.
CurlOpen(p) ==
    /\ proc[p].pc = "download"
    /\ LET t == proc[p].tree
           f == CurFile(p)
       IN  /\ dirs' = [dirs EXCEPT ![t][WipPath(f)] = [body |-> PARTIAL, mtime |-> OldDate]]
           /\ proc' = [proc EXCEPT ![p] =
                    [@ EXCEPT !.pc = "curl", !.fd = WipPath(f),
                              !.len_avail = FALSE,
                              !.served = "none", !.err = "",
                              !.before = Dir(p)[DstPath(f)],
                              !.attempts = @ + 1,
                              !.attempted = @ \cup {f}]]
    /\ UNCHANGED <<kinds, delete, remote, docs, dirs0, run>>

\* Lines 164-167 / 248-252, 170-171 / 255-256: an attempt begins and curl fails
\* before it has opened its output file (--fail on an HTTP error, no
\* connection): sp.check_call raises CalledProcessError.
CurlRefused(p) ==
    /\ proc[p].pc = "download"
    /\ proc' = [proc EXCEPT ![p] =
            [@ EXCEPT !.pc = "attempt_end", !.served = "none",
                      !.len_avail = FALSE,
                      !.err = "CalledProcessError",
                      !.before = Dir(p)[DstPath(CurFile(p))],
                      !.attempts = @ + 1,
                      !.attempted = @ \cup {CurFile(p)}]]
    /\ UNCHANGED <<kinds, delete, remote, dirs, docs, dirs0, run>>

\* Lines 103-108: curl ends.  Either it wrote the whole body the server sent
\* and set the remote time (--remote-time), or the transfer broke off and
\* left the file cut short (CalledProcessError, lines 170-171 / 255-256).  A
\* file another process is still writing stays incomplete.
CurlFinish(p) ==
    /\ proc[p].pc = "curl"
    /\ LET t == proc[p].tree
           at == proc[p].fd
           shared == \E q \in Procs \ {p} : proc[q].tree = t /\ proc[q].fd = at
       IN  \/ \E b \in Bodies :
                /\ dirs' = IF at \in Paths /\ ~shared
                           THEN [dirs EXCEPT ![t][at] = [body |-> b, mtime |-> RemoteDate]]
                           ELSE dirs
                /\ proc' = [proc EXCEPT ![p] =
                        [@ EXCEPT !.pc = "verify", !.fd = NoPath, !.served = b]]
           \/ /\ proc' = [proc EXCEPT ![p] =
                        [@ EXCEPT !.pc = "attempt_end", !.fd = NoPath,
                                  !.err = "CalledProcessError"]]
              /\ UNCHANGED dirs
    /\ UNCHANGED <<kinds, delete, remote, docs, dirs0, run>>

\* Lines 109-110: md5_check opens the downloaded file (FileNotFoundError if
\* the path is gone); on a mismatch curl_download returns "MD5 mismatch" and
\* the file stays where it is.
Verify(p) ==
    /\ proc[p].pc = "verify"
    /\ LET wip == Dir(p)[WipPath(CurFile(p))]
       IN  proc' = [proc EXCEPT ![p] =
                IF Item(p).md5 # "" /\ ~IsFile(wip)
                THEN Raise(@, "FileNotFoundError")
                ELSE IF Md5Mismatch(wip.body, Item(p).md5)
                THEN [@ EXCEPT !.pc = "attempt_end", !.err = "MD5 mismatch"]
                ELSE [@ EXCEPT !.pc = "rename", !.err = "None"]]
    /\ UNCHANGED <<kinds, delete, remote, dirs, docs, dirs0, run>>

\* Lines 168-169 / 253-254: dst_file_wip.rename(dst_file).  The rename may
\* fail (OSError; FileNotFoundError if the temporary file is gone), which no
\* except clause of the loop catches.
RenameWip(p) ==
    /\ proc[p].pc = "rename"
    /\ LET t == proc[p].tree
           f == CurFile(p)
       IN  \E ok \in BOOLEAN :
             IF ok /\ IsFile(Dir(p)[WipPath(f)])
             THEN /\ dirs' = [dirs EXCEPT ![t][DstPath(f)] = Dir(p)[WipPath(f)],
                                          ![t][WipPath(f)] = NoFile]
                  /\ proc' = ProcAfterRename(
                        [proc EXCEPT ![p] = [@ EXCEPT !.pc = "attempt_end"]],
                        t, WipPath(f), DstPath(f))
             ELSE /\ proc' = [proc EXCEPT ![p] =
                        Raise(@, IF IsFile(Dir(p)[WipPath(f)])
                                 THEN "OSError" ELSE "FileNotFoundError")]
                  /\ UNCHANGED dirs
    /\ UNCHANGED <<kinds, delete, remote, docs, dirs0, run>>

\* Lines 164, 172-174 / 248, 257-259: a successful attempt leaves the loop;
\* a failed one is logged and the loop goes on while it has attempts left,
\* then the file is given up and the next entry is taken.
AttemptEnd(p) ==
    /\ proc[p].pc = "attempt_end"
    /\ proc' = [proc EXCEPT ![p] =
            IF proc[p].err = "None"
            THEN NextEntry(@)
            ELSE IF proc[p].retry + 1 < RetryCount
            THEN [@ EXCEPT !.pc = "download", !.retry = @ + 1]
            ELSE NextEntry([@ EXCEPT !.failed = @ \cup {CurFile(p)},
                                     !.given_up[CurFile(p)] = proc[p].attempts])]
    /\ UNCHANGED <<kinds, delete, remote, dirs, docs, dirs0, run>>

\* -------------------------------------------------------- sync_installer()
\* Lines 205-216: the listing is fetched and parsed when the loop starts;
\* requests.get may raise.
InstallerList(p) ==
    /\ proc[p].pc = "list"
    /\ \E ok \in BOOLEAN :
        proc' = [proc EXCEPT ![p] =
            IF ok THEN [@ EXCEPT !.pc = "inst_loop"]
            ELSE Raise(@, "RequestException")]
    /\ UNCHANGED <<kinds, delete, remote, dirs, docs, dirs0, run>>

\* The mutation of Fresh that never samples the checksum.
FreshUnsampled(len_avail, remote_filesize, remote_date, local, sampled, md5) ==
    /\ (~len_avail \/ remote_filesize = Size(local.body))
    /\ remote_date = local.mtime

\* Lines 233-235: the file is taken as up to date.  sampled stands for
\* random.random() >= 0.95, the runs that check the md5 too.
Fresh(len_avail, remote_filesize, remote_date, local, sampled, md5) ==
    /\ (~len_avail \/ remote_filesize = Size(local.body))
    /\ remote_date = local.mtime
    /\ (~sampled \/ md5_check(local.body, md5))

\* The mutation of StopScan that scans every row in every run.
StopScanNever(full_scan) == FALSE

\* Line 239: if not full_scan
StopScan(full_scan) == ~full_scan

\* Lines 216-246: one row of the listing up to the download loop.  An
\* existing file is probed with requests.head (which may raise), then skipped
\* if fresh (ending the scan unless this is a full scan) or unlinked.
\* len_avail ('content-length' in r.headers, line 224) is kept up to the step
\* after the probe that set it; nothing reads it later.
InstallerEntry(p) ==
    /\ proc[p].pc = "inst_loop"
    /\ proc[p].i <= Len(Items(p))
    /\ LET t == proc[p].tree
           f == CurFile(p)
           dst == Dir(p)[DstPath(f)]
           probing == [proc[p] EXCEPT !.probed = @ \cup {f}, !.len_avail = FALSE]
           \* random.random() is called only if size and time agree
           drawn(head) == IF head[2] /\ Fresh(head[1], Size("good"), RemoteDate,
                                              dst, FALSE, Item(p).md5)
                          THEN [probing EXCEPT !.len_avail = head[1],
                                               !.sampled = @ \cup {f}]
                          ELSE [probing EXCEPT !.len_avail = head[1]]
       IN  IF ~IsFile(dst)
           THEN /\ proc' = [proc EXCEPT ![p] =
                        [@ EXCEPT !.pc = "download", !.len_avail = FALSE]]
                /\ UNCHANGED dirs
           ELSE \E head \in {"error"} \cup (BOOLEAN \X BOOLEAN) :
                  IF head = "error"
                  THEN /\ proc' = [proc EXCEPT ![p] = Raise(probing, "RequestException")]
                       /\ UNCHANGED dirs
                  ELSE IF Fresh(head[1], Size("good"), RemoteDate, dst, head[2], Item(p).md5)
                  THEN /\ proc' = [proc EXCEPT ![p] =
                            IF StopScan(proc[p].full_scan)
                            THEN [drawn(head) EXCEPT !.pc = "returned",
                                                     !.skipped = @ \cup {f}]
                            ELSE NextEntry([drawn(head) EXCEPT !.skipped = @ \cup {f}])]
                       /\ UNCHANGED dirs
                  ELSE /\ dirs' = [dirs EXCEPT ![t][DstPath(f)] = NoFile]
                       /\ proc' = ProcAfterUnlink(
                            [proc EXCEPT ![p] = [drawn(head) EXCEPT !.pc = "download"]],
                            t, DstPath(f))
    /\ UNCHANGED <<kinds, delete, remote, docs, dirs0, run>>

\* Line 216: the listing is exhausted; sync_installer returns.
InstallerEnd(p) ==
    /\ proc[p].pc = "inst_loop"
    /\ proc[p].i > Len(Items(p))
    /\ proc' = [proc EXCEPT ![p] = [@ EXCEPT !.pc = "returned", !.len_avail = FALSE]]
    /\ UNCHANGED <<kinds, delete, remote, dirs, docs, dirs0, run>>

\* -------------------------------------------------------- the specifications
\* The steps of main(), sync_repo() and the download loop.
NextRepo ==
    \/ \E p \in Procs : MainCall(p)
    \/ \E p \in Procs : MainReturn(p)
    \/ \E p \in Procs : MainExcept(p)
    \/ \E p \in Procs : MainReport(p)
    \/ \E p \in Procs : FetchIndex(p)
    \/ \E p \in Procs : RepoEntry(p)
    \/ \E p \in Procs : PublishIndex(p)
    \/ \E p \in Procs : PruneAndReturn(p)
    \/ \E p \in Procs : CurlOpen(p)
    \/ \E p \in Procs : CurlRefused(p)
    \/ \E p \in Procs : CurlFinish(p)
    \/ \E p \in Procs : Verify(p)
    \/ \E p \in Procs : RenameWip(p)
    \/ \E p \in Procs : AttemptEnd(p)

\* The steps of sync_installer() up to the download loop.
NextInstaller ==
    \/ \E p \in Procs : InstallerList(p)
    \/ \E p \in Procs : InstallerEntry(p)
    \/ \E p \in Procs : InstallerEnd(p)

Next == NextRepo \/ NextInstaller

Spec == Init /\ [][Next]_vars

\* The script is started again on the same working directory, the remote
\* trees unchanged.
Rerun(p) ==
    /\ proc[p].pc = "done"
    /\ run = 1
    /\ run' = 2
    /\ dirs0' = dirs
    /\ proc' = [proc EXCEPT ![p] =
            [InitProc EXCEPT !.prev_failed = proc[p].failed,
                             !.prev_outcomes = proc[p].outcomes]]
    /\ UNCHANGED <<kinds, delete, remote, dirs, docs>>

\* One repo tree, synced by two runs of the script in succession.
InitRerun == InitWith({<<"repo">>}, MaxFiles, 1, {"ok"}, Bodies)

NextRerun ==
    \/ NextRepo
    \/ \E p \in Procs : Rerun(p)

SpecRerun == InitRerun /\ [][NextRerun]_vars

\* main() over an installer tree, a CONDA_REPOS tree and a CONDA_CLOUD_REPOS
\* tree of one file name each.  The process is never stopped from outside:
\* whenever it has a next step it takes it.
InitMain == InitWith({<<"installer", "repo", "repo">>}, 1, 1, {"ok"}, {"good", "other"})

SpecMain == InitMain /\ [][Next]_vars /\ WF_vars(Next)

\* Two runs of the script at once on one repo tree of one file name.
InitConc == InitWith({<<"repo">>}, 1, 2, {"ok"}, Bodies)

SpecConc == InitConc /\ [][NextRepo]_vars

\* One repo tree of one file name whose server has current_repodata.json, has
\* none, or breaks the transfer of it off.
InitIndex == InitWith({<<"repo">>}, 1, 1, {"ok", "missing", "broken"}, Bodies)

SpecIndex == InitIndex /\ [][NextRepo]_vars

\* ------------------------------------------------------------------ claims
\* Process p is inside a download attempt (or at its end) for the entry at i.
InAttempt(p) == proc[p].pc \in {"curl", "verify", "rename", "attempt_end"}

\* The position of file f in the entries of the tree process p is at (0: none).
IndexOf(p, f) ==
    IF \E k \in DOMAIN Items(p) : Items(p)[k].filename = f
    THEN CHOOSE k \in DOMAIN Items(p) : Items(p)[k].filename = f
    ELSE 0

\* The loop of process p has left the entry of file f behind.
MovedPast(p, f) ==
    \/ proc[p].pc \in {"prune", "returned"}
    \/ /\ proc[p].pc \in {"repo_loop", "inst_loop", "download", "raised"} \cup
                         {"curl", "verify", "rename", "attempt_end"}
       /\ proc[p].i > IndexOf(p, f)

\* C1: an attempt of sync_repo or sync_installer whose downloaded bytes hash to
\* another value than the declared checksum reports "MD5 mismatch", never
\* reaches the rename, and leaves the destination path as it was when the
\* attempt began.
C1_ChecksumEnforced ==
    \A p \in Procs :
        (/\ InSync(p)
         /\ proc[p].pc \in {"rename", "attempt_end"}
         /\ proc[p].served # "none"
         /\ Item(p).md5 # ""
         /\ Md5Hex(proc[p].served) # Item(p).md5)
        => /\ proc[p].pc = "attempt_end"
           /\ proc[p].err = "MD5 mismatch"
           /\ Dir(p)[DstPath(CurFile(p))] = proc[p].before

\* C1's case: a complete download with the wrong digest ended an attempt.
C1_Witness ==
    \E p \in Procs :
        /\ InSync(p)
        /\ proc[p].pc = "attempt_end"
        /\ proc[p].served = "corrupt"
        /\ proc[p].err = "MD5 mismatch"
        /\ IsFile(Dir(p)[WipPath(CurFile(p))])

\* C2: in every state of a sync run every destination path is absent, holds
\* the complete file it held before the run, or holds a complete downloaded
\* file; it never holds a file cut short.
C2_Atomicity ==
    \A t \in Trees : \A f \in Files :
        LET dst == dirs[t][DstPath(f)]
        IN  \/ dst = NoFile
            \/ dst = dirs0[t][DstPath(f)] /\ dst.body \in Bodies
            \/ dst.body \in Bodies /\ dst.mtime = RemoteDate

\* C2's case: a transfer broke off and left a file cut short under the
\* temporary name.
C2_Witness ==
    \E p \in Procs :
        /\ InSync(p)
        /\ proc[p].pc = "attempt_end"
        /\ proc[p].err = "CalledProcessError"
        /\ Dir(p)[WipPath(CurFile(p))].body = PARTIAL

\* C3: a file all of whose attempts failed was attempted exactly 3 times, the
\* loop then went on to the next entry, and no failed download attempt makes
\* the sync function raise: once a download was attempted, only the metadata
\* probe or the rename can.
C3_RetryBound ==
    \A p \in Procs :
        InSync(p) =>
            /\ \A f \in proc[p].failed :
                    proc[p].given_up[f] = 3 /\ MovedPast(p, f)
            /\ proc[p].attempts <= 3
            /\ (proc[p].pc = "raised" /\ proc[p].attempted # {})
                    => proc[p].exc \in {"RequestException", "OSError"}

\* C3's case: the first file was given up, the second one was then
\* downloaded, and the sync function returned.
C3_Witness ==
    \E p \in Procs :
        /\ proc[p].pc = "returned"
        /\ 1 \in proc[p].failed
        /\ 2 \in proc[p].attempted \ proc[p].failed

\* The files of the tree process p is at that the index lists under a package
\* name that is not excluded.
Mirrored(p) ==
    {Items(p)[k].filename :
        k \in {j \in DOMAIN Items(p) : Items(p)[j].name \notin EXCLUDED_PACKAGES}}

\* The files of the tree process p is at that the index lists at all.
Listed(p) == {Items(p)[k].filename : k \in DOMAIN Items(p)}

\* C4, as stated: after a first run that returned, the second of two runs in
\* succession on the same destination and the same index makes no download
\* attempt.
C4_Original ==
    \A p \in Procs :
        (run = 2 /\ proc[p].prev_outcomes = <<"returned">>)
        => proc[p].attempted = {}

\* C4, amended: the second run makes no download attempt if the first run
\* returned and gave no file up.
C4_Idempotent ==
    \A p \in Procs :
        (/\ run = 2
         /\ proc[p].prev_outcomes = <<"returned">>
         /\ proc[p].prev_failed = {})
        => proc[p].attempted = {}

\* C4's case: the first run downloaded a file, the second run went through
\* the whole index, skipped that file and returned.
C4_Witness ==
    \E p \in Procs :
        /\ run = 2
        /\ proc[p].prev_outcomes = <<"returned">>
        /\ proc[p].prev_failed = {}
        /\ proc[p].pc = "returned"
        /\ \E f \in proc[p].skipped : dirs0[1][DstPath(f)].mtime = RemoteDate

\* C5, as stated: after sync_repo returned with no file given up, the package
\* files of the destination are exactly the files the index lists under names
\* that are not excluded.
C5_Original ==
    \A p \in Procs :
        (/\ InSync(p)
         /\ kinds[proc[p].tree] = "repo"
         /\ proc[p].pc = "returned"
         /\ proc[p].failed = {})
        => {path \in Paths : IsFile(Dir(p)[path])} = {DstPath(f) : f \in Mirrored(p)}

\* C5, amended: the same, for a run with pruning enabled.
C5_Complete ==
    \A p \in Procs :
        (/\ InSync(p)
         /\ kinds[proc[p].tree] = "repo"
         /\ proc[p].pc = "returned"
         /\ proc[p].failed = {}
         /\ delete)
        => {path \in Paths : IsFile(Dir(p)[path])} = {DstPath(f) : f \in Mirrored(p)}

\* C5's case: a pruning run that downloaded a file and removed another
\* returned with no file given up.
C5_Witness ==
    \E p \in Procs :
        /\ InSync(p)
        /\ kinds[proc[p].tree] = "repo"
        /\ proc[p].pc = "returned"
        /\ proc[p].failed = {}
        /\ delete
        /\ proc[p].attempted # {}
        /\ proc[p].deleted # {}

\* The prune step of process p: the files it removes from the directory.
PruneStep(p) ==
    /\ InSync(p)
    /\ delete
    /\ proc[p].pc = "prune"
    /\ proc'[p].pc = "returned"

Removed(p) ==
    {path \in Paths : IsFile(Dir(p)[path]) /\ ~IsFile(dirs'[proc[p].tree][path])}

\* C6, as stated: the prune step deletes exactly the package files of the
\* destination that the fetched index does not describe, and counts them.
C6_Original ==
    [][\A p \in Procs :
        PruneStep(p) =>
            /\ Removed(p) = {path \in Paths : IsFile(Dir(p)[path])}
                                \ {DstPath(f) : f \in Listed(p)}
            /\ proc'[p].delete_count = Cardinality(Removed(p))]_vars

\* C6, amended: the prune step deletes exactly the package files of the
\* destination (the '.downloading.' ones among them) that are not the
\* destination path of an index entry whose package name is not excluded, and
\* counts them.
C6_Prune ==
    [][\A p \in Procs :
        PruneStep(p) =>
            /\ Removed(p) = {path \in Paths : IsFile(Dir(p)[path])}
                                \ {DstPath(f) : f \in Mirrored(p)}
            /\ proc'[p].delete_count = Cardinality(Removed(p))]_vars

\* C6's case: the prune step removed the file of an excluded package and a
\* file the index does not list, left a listed file and counted 2.
C6_Witness ==
    \E p \in Procs :
        /\ InSync(p)
        /\ delete
        /\ proc[p].pc = "returned"
        /\ proc[p].delete_count = 2
        /\ \E f \in Listed(p) \ Mirrored(p) : DstPath(f) \in proc[p].deleted
        /\ \E f \in Files \ Listed(p) : DstPath(f) \in proc[p].deleted

\* The file the first row of the listing names.
FirstFile(p) == Items(p)[1].filename

\* Process p is in a scan that is not a full scan, and before the run the
\* destination held a file with the first row's remote size and time.
EarlyStopCase(p) ==
    /\ InSync(p)
    /\ kinds[proc[p].tree] = "installer"
    /\ proc[p].pc \notin {"main", "list"}
    /\ ~proc[p].full_scan
    /\ LET had == dirs0[proc[p].tree][DstPath(FirstFile(p))]
       IN  /\ IsFile(had)
           /\ Size(had.body) = Size("good")
           /\ had.mtime = RemoteDate

\* The files process p touched the network for: metadata probe or download.
NetworkOps(p) == proc[p].probed \cup proc[p].attempted

\* C7, as stated: in a scan that is not a full scan, with a file of the first
\* row's size and time at the destination, no network operation is made for a
\* later row.
C7_Original ==
    \A p \in Procs : EarlyStopCase(p) => NetworkOps(p) \subseteq {FirstFile(p)}

\* C7, amended: the same, if the file also has the listed checksum whenever
\* the run samples the checksum.
C7_EarlyStop ==
    \A p \in Procs :
        (/\ EarlyStopCase(p)
         /\ FirstFile(p) \in proc[p].sampled
                => md5_check(dirs0[proc[p].tree][DstPath(FirstFile(p))].body,
                             Items(p)[1].md5))
        => NetworkOps(p) \subseteq {FirstFile(p)}

\* C7's case: the first row's file was probed, its checksum sampled, and the
\* scan stopped there with a second row left.
C7_Witness ==
    \E p \in Procs :
        /\ EarlyStopCase(p)
        /\ proc[p].pc = "returned"
        /\ proc[p].sampled = {FirstFile(p)}
        /\ proc[p].skipped = {FirstFile(p)}
        /\ Len(Items(p)) >= 2

\* C8: while two runs work on one destination, no destination path holds a
\* file cut short.
C8_NoPartialVisible ==
    \A t \in Trees : \A f \in Files : dirs[t][DstPath(f)].body # PARTIAL

\* C9, as stated: a file all of whose attempts failed has at its destination
\* path what it had before the run, and the loop went on.
C9_Original ==
    \A p \in Procs :
        InSync(p) =>
            \A f \in proc[p].failed :
                /\ Dir(p)[DstPath(f)] = dirs0[proc[p].tree][DstPath(f)]
                /\ MovedPast(p, f)

\* C9, amended: a file all of whose attempts failed is absent from its
\* destination path (a stale file was removed before the first attempt), and
\* the loop went on.
C9_AbsentAfterFailure ==
    \A p \in Procs :
        InSync(p) =>
            \A f \in proc[p].failed :
                /\ Dir(p)[DstPath(f)] = NoFile
                /\ MovedPast(p, f)

\* C9's case: a stale file was at the destination, every attempt failed, and
\* the sync function returned.
C9_Witness ==
    \E p \in Procs :
        /\ InSync(p)
        /\ proc[p].pc = "returned"
        /\ \E f \in proc[p].failed : IsFile(dirs0[proc[p].tree][DstPath(f)])

\* C10: whenever a sync function raises, main() goes on, has the sync
\* function of every tree called and ended, and prints its total.
C10_TreeScoped ==
    (proc[1].pc = "raised")
        ~> (proc[1].pc = "done" /\ Len(proc[1].outcomes) = Len(kinds))

\* C10's case: the first and the second tree raised, the third was synced,
\* and main() printed its total.
C10_Witness ==
    /\ proc[1].pc = "done"
    /\ Len(kinds) = 3
    /\ proc[1].outcomes[1] = "RequestException"
    /\ proc[1].outcomes[2] \in {"CalledProcessError", "OSError"}
    /\ proc[1].outcomes[3] = "returned"

\* The files process p downloaded and published in this run of the sync
\* function.
Succeeded(p) ==
    {f \in proc[p].attempted \ proc[p].failed :
        \/ MovedPast(p, f)
        \/ /\ proc[p].pc = "attempt_end"
           /\ proc[p].err = "None"
           /\ CurFile(p) = f}

\* C11: whenever the destination of a repo tree holds the index fetched in
\* this run, the entry loop has gone through every entry of that index, and
\* every file downloaded in this run is at its destination path with the
\* declared checksum.
C11_FilesFirst ==
    \A p \in Procs :
        (/\ InSync(p)
         /\ kinds[proc[p].tree] = "repo"
         /\ docs[proc[p].tree].repodata = "new")
        => /\ proc[p].i > Len(Items(p))
           /\ docs[proc[p].tree].bz2 = "new"
           /\ \A f \in Succeeded(p) :
                /\ IsFile(Dir(p)[DstPath(f)])
                /\ md5_check(Dir(p)[DstPath(f)].body, Items(p)[IndexOf(p, f)].md5)

\* C11's case: the index was published after one file was downloaded and
\* another was given up.
C11_Witness ==
    \E p \in Procs :
        /\ InSync(p)
        /\ kinds[proc[p].tree] = "repo"
        /\ docs[proc[p].tree].repodata = "new"
        /\ Succeeded(p) # {}
        /\ proc[p].failed # {}

\* C12: a failed fetch of current_repodata.json, also one that wrote part of
\* the document to tmpdir, does not make sync_repo raise, and the destination's
\* current_repodata.json is replaced only by a document the run fetched whole.
C12_OptionalIndex ==
    \A p \in Procs :
        (/\ InSync(p)
         /\ kinds[proc[p].tree] = "repo"
         /\ proc[p].fetched = "ok")
        => /\ (remote[proc[p].tree].current # "ok" /\ proc[p].attempted = {})
                    => proc[p].pc # "raised"
           /\ docs[proc[p].tree].current \in {"old", "new"}
           /\ docs[proc[p].tree].current = "new"
                    => remote[proc[p].tree].current = "ok"

\* C13: a failed rename of the verified temporary file onto the destination
\* path does not make sync_repo or sync_installer raise: the error stays
\* inside the download loop as a failed attempt of that file.
C13_PublishRetried ==
    \A p \in Procs :
        (InSync(p) /\ proc[p].attempted # {})
        => ~(proc[p].pc = "raised" /\ proc[p].exc \in {"OSError", "FileNotFoundError"})

\* C14: in sync_installer an error of the metadata probe of an existing file
\* does not end the scan: the function does not raise once it has probed a
\* file, the entry is given up after 3 tries and the next row is taken.
C14_ProbeRetried ==
    \A p \in Procs :
        (/\ InSync(p)
         /\ kinds[proc[p].tree] = "installer"
         /\ proc[p].probed # {})
        => ~(proc[p].pc = "raised" /\ proc[p].exc = "RequestException")

\* C15: when a download attempt has ended in "MD5 mismatch", the
\* '.downloading.' file of that attempt is gone from the directory.
C15_TempDiscarded ==
    \A p \in Procs :
        (/\ InSync(p)
         /\ proc[p].pc = "attempt_end"
         /\ proc[p].err = "MD5 mismatch")
        => ~IsFile(Dir(p)[WipPath(CurFile(p))])

\* The tree whose sync function process p called last.
LastTree(p) == IF proc[p].pc \in {"main", "done"} THEN proc[p].tree - 1 ELSE proc[p].tree

\* C16: when the fetch of repodata.json or of repodata.json.bz2 has failed,
\* sync_repo has raised CalledProcessError to main() without entering the
\* entry loop: no download was attempted, nothing was pruned, and the files
\* and the index documents of the destination are what they were.
C16_IndexFailureClean ==
    \A p \in Procs :
        proc[p].fetched \in {"repodata.json fails", "repodata.json.bz2 fails"}
        => /\ proc[p].pc \in {"raised", "main", "done"}
           /\ proc[p].pc = "raised" => proc[p].exc = "CalledProcessError"
           /\ proc[p].pc # "raised"
                => proc[p].outcomes[LastTree(p)] = "CalledProcessError"
           /\ proc[p].i = 1
           /\ proc[p].attempted = {}
           /\ proc[p].deleted = {}
           /\ dirs[LastTree(p)] = dirs0[LastTree(p)]
           /\ docs[LastTree(p)] = OldDocs

\* C16's case: repodata.json.bz2 could not be fetched for a tree whose index
\* lists a file the destination holds in another size, in a pruning run, and
\* main() went on.
C16_Witness ==
    \E p \in Procs :
        /\ proc[p].fetched = "repodata.json.bz2 fails"
        /\ proc[p].pc = "done"
        /\ delete
        /\ \E k \in DOMAIN remote[1].items :
              LET m == remote[1].items[k]
              IN  /\ m.name \notin EXCLUDED_PACKAGES
                  /\ IsFile(dirs[1][DstPath(m.filename)])
                  /\ Size(dirs[1][DstPath(m.filename)].body) # m.size
        /\ \E f \in Files : IsFile(dirs[1][DstPath(f)]) /\ f \notin {remote[1].items[k].filename : k \in DOMAIN remote[1].items}

\* C17: for an index entry of sync_repo that is not excluded and whose
\* destination path held a file before the run: if the file has the declared
\* size, whatever its bytes, no download of it is attempted, it is skipped
\* and stays as it was; if it has another size, it is gone from the path when
\* the first attempt begins and a download is attempted.
C17_SizeOnlyFreshness ==
    \A p \in Procs :
        (InSync(p) /\ kinds[proc[p].tree] = "repo" /\ proc[p].fetched = "ok")
        => \A k \in DOMAIN Items(p) :
            LET m == Items(p)[k]
                f == m.filename
                had == dirs0[proc[p].tree][DstPath(f)]
                now == Dir(p)[DstPath(f)]
                attempting == /\ proc[p].i = k
                              /\ proc[p].pc \in {"curl", "verify", "rename", "attempt_end"}
            IN  (m.name \notin EXCLUDED_PACKAGES /\ IsFile(had))
                => IF Size(had.body) = m.size
                   THEN /\ f \notin proc[p].attempted
                        /\ now = had
                        /\ MovedPast(p, f) => f \in proc[p].skipped
                   ELSE /\ f \notin proc[p].skipped
                        /\ (attempting /\ proc[p].attempts = 1)
                                => proc[p].before = NoFile
                        /\ (attempting \/ MovedPast(p, f))
                                => /\ f \in proc[p].attempted
                                   /\ now = NoFile \/ now.mtime = RemoteDate

\* C17's case: the run skipped a file of the declared size whose bytes do not
\* have the declared checksum, and removed and downloaded a file of another
\* size.
C17_Witness ==
    \E p \in Procs :
        /\ InSync(p)
        /\ kinds[proc[p].tree] = "repo"
        /\ proc[p].pc = "returned"
        /\ \E f \in proc[p].skipped :
              /\ dirs0[proc[p].tree][DstPath(f)].body = "corrupt"
              /\ Dir(p)[DstPath(f)].body = "corrupt"
        /\ \E f \in proc[p].attempted :
              /\ dirs0[proc[p].tree][DstPath(f)].body = "other"
              /\ Dir(p)[DstPath(f)].body = "good"

\* Process p is at a row of the listing whose file exists at the destination
\* and takes the step that probes and decides it.
DecisionStep(p) ==
    /\ InSync(p)
    /\ kinds[proc[p].tree] = "installer"
    /\ proc[p].pc = "inst_loop"
    /\ proc[p].i <= Len(Items(p))
    /\ IsFile(Dir(p)[DstPath(CurFile(p))])
    /\ proc'[p].pc # "raised"

\* C18: a step of sync_installer that skips an existing file does so only if
\* (no content-length was served or it equals the local size) and the local
\* time equals the remote one and, if the checksum is sampled, the checksum
\* matches; every other deciding step unlinks the file and enters the
\* download loop of that row, whose first step is a download attempt, and
\* when that loop ends the scan is at the next row.
C18_Freshness ==
    [][\A p \in Procs :
        LET f == CurFile(p)
            had == Dir(p)[DstPath(f)]
            skips == f \in proc'[p].skipped
        IN  /\ (DecisionStep(p) /\ skips)
                => /\ ~proc'[p].len_avail \/ Size(had.body) = Size("good")
                   /\ had.mtime = RemoteDate
                   /\ f \in proc'[p].sampled => md5_check(had.body, Item(p).md5)
                   /\ dirs' = dirs
            /\ (DecisionStep(p) /\ ~skips)
                => /\ ~(/\ ~proc'[p].len_avail \/ Size(had.body) = Size("good")
                        /\ had.mtime = RemoteDate
                        /\ f \in proc'[p].sampled => md5_check(had.body, Item(p).md5))
                   /\ dirs'[proc[p].tree][DstPath(f)] = NoFile
                   /\ proc'[p].pc = "download"
                   /\ proc'[p].i = proc[p].i
            /\ (/\ InSync(p)
                /\ kinds[proc[p].tree] = "installer"
                /\ proc[p].pc = "download"
                /\ proc'[p].pc # "download")
                => CurFile(p) \in proc'[p].attempted
            /\ (/\ InSync(p)
                /\ kinds[proc[p].tree] = "installer"
                /\ proc[p].pc = "attempt_end"
                /\ proc'[p].pc \notin {"attempt_end", "download"})
                => /\ proc'[p].pc = "inst_loop"
                   /\ proc'[p].i = proc[p].i + 1]_vars

\* C18's case: in a full scan a file with the remote size and time whose
\* sampled checksum did not match was deleted and downloaded, and a later
\* file was skipped without a content-length.
C18_Witness ==
    \E p \in Procs :
        /\ InSync(p)
        /\ kinds[proc[p].tree] = "installer"
        /\ proc[p].full_scan
        /\ proc[p].pc = "returned"
        /\ \E f \in proc[p].sampled \cap proc[p].attempted :
              /\ dirs0[proc[p].tree][DstPath(f)] = [body |-> "corrupt", mtime |-> RemoteDate]
              /\ Dir(p)[DstPath(f)].body = "good"
        /\ \E f \in proc[p].skipped :
              dirs0[proc[p].tree][DstPath(f)] = [body |-> "other", mtime |-> RemoteDate]

RECURSIVE SumDeclared(_, _)
\* The sum of the declared sizes of the entries at the positions ks.
SumDeclared(items, ks) ==
    IF ks = {} THEN 0
    ELSE LET k == CHOOSE j \in ks : TRUE
         IN  items[k].size + SumDeclared(items, ks \ {k})

\* C19: when sync_repo has returned, its result is the sum of the declared
\* sizes of the index entries whose package name is not excluded, whichever
\* of them were skipped, downloaded or given up and whether or not the run
\* pruned.
C19_TotalBytes ==
    \A p \in Procs :
        (/\ InSync(p)
         /\ kinds[proc[p].tree] = "repo"
         /\ proc[p].pc = "returned")
        => proc[p].total_size =
             SumDeclared(Items(p),
                 {k \in DOMAIN Items(p) : Items(p)[k].name \notin EXCLUDED_PACKAGES})

\* C19's case: sync_repo returned after it skipped one file and gave another
\* up, both counted.
C19_Witness ==
    \E p \in Procs :
        /\ InSync(p)
        /\ kinds[proc[p].tree] = "repo"
        /\ proc[p].pc = "returned"
        /\ proc[p].skipped # {}
        /\ proc[p].failed # {}
        /\ proc[p].total_size = 2 * Size("good")

\* C20: the prune step of a pruning run of sync_repo leaves the destination
\* path of every index entry that is not excluded as it was, be the file
\* there skipped, downloaded in this run, or absent after it was given up.
C20_PruneKeepsListed ==
    [][\A p \in Procs :
        PruneStep(p) =>
            \A f \in Mirrored(p) :
                dirs'[proc[p].tree][DstPath(f)] = Dir(p)[DstPath(f)]]_vars

\* C20's case: a pruning run downloaded one listed file, gave another listed
\* file up, and its prune step deleted something and left the downloaded
\* file in place.
C20_Witness ==
    \E p \in Procs :
        /\ InSync(p)
        /\ kinds[proc[p].tree] = "repo"
        /\ delete
        /\ proc[p].pc = "returned"
        /\ proc[p].deleted # {}
        /\ proc[p].failed # {}
        /\ \E f \in Succeeded(p) : Dir(p)[DstPath(f)].body = "good"

====
